---- MODULE Spec2Model ----
(***************************************************************************)
(* ICMP echo codec of icmp.c: the family rule table, the Internet          *)
(* checksum, icmp_encode / icmp_send and icmp_parse.                       *)
(*                                                                         *)
(* A C buffer is a sequence of bytes; C index i is element i + 1.  A       *)
(* pointer into a buffer is the pair (buf, off).  A NULL pointer is the    *)
(* empty sequence: every buffer the code allocates holds at least one      *)
(* byte.  A read outside the buffer yields the byte `oob`, which the       *)
(* caller of the operator chooses nondeterministically, and is recorded    *)
(* in the set of indices read.                                             *)
(***************************************************************************)
EXTENDS Integers, Sequences, FiniteSets, TLC

\* ------------------------------------------------------------ bounds
MaxPayload == 2

\* ------------------------------------------------- program constants
ICMP_ECHO == 8
ICMP_ECHOREPLY == 0
ICMP6_ECHO_REQUEST == 128
ICMP6_ECHO_REPLY == 129
ICMP_HDRLEN == 8

AF_INET == "AF_INET"
AF_INET6 == "AF_INET6"
ICMP_REQUEST == "ICMP_REQUEST"
ICMP_REPLY == "ICMP_REPLY"
NULL == << >>

\* struct icmp_rule and its two constant instances
icmpv4 ==
    [request_type |-> ICMP_ECHO, reply_type |-> ICMP_ECHOREPLY,
     use_checksum |-> 1, strip_iphdr |-> 1]

icmpv6 ==
    [request_type |-> ICMP6_ECHO_REQUEST, reply_type |-> ICMP6_ECHO_REPLY,
     use_checksum |-> 0, strip_iphdr |-> 0]

ICMP_ADDRFAMILY(pkt) == pkt.family

GET_RULE(pkt) == IF ICMP_ADDRFAMILY(pkt) = AF_INET THEN icmpv4 ELSE icmpv6

\* ------------------------------------------------------ fixed widths
U8(x) == x % 256
U16(x) == x % 65536

\* A uint32_t is the pair of its 16-bit halves [hi, lo] (2^32 is beyond the
\* integers of the model checker); u32_add is csum += c for a 16-bit c.
u32_zero == [hi |-> 0, lo |-> 0]
u32_add(x, c) ==
    [hi |-> U16(x.hi + ((x.lo + c) \div 65536)), lo |-> U16(x.lo + c)]

\* data[i] for the pointer (buf, off)
InBuf(buf, k) == k >= 0 /\ k < Len(buf)

at(buf, off, i, oob) == IF InBuf(buf, off + i) THEN buf[off + i + 1] ELSE oob

\* ------------------------------------------------------------ checksum
\* One iteration of the for loop: c = data[i] << 8; if (i + 1 < len) c |=
\* data[i + 1]; csum += c.  The low byte of c is zero before the |=, so the
\* bitwise or is an addition.
\* faulty variant of the guard: the second byte is read even past the end
csum_reads_second_always(i, len) == TRUE
csum_reads_second(i, len) == i + 1 < len

csum_word(buf, off, len, i, oob) ==
    LET c0 == U16(at(buf, off, i, oob) * 256)
    IN  IF csum_reads_second(i, len) THEN c0 + at(buf, off, i + 1, oob) ELSE c0

csum_word_reads(off, len, i) ==
    IF csum_reads_second(i, len) THEN {off + i, off + i + 1} ELSE {off + i}

RECURSIVE csum_loop(_, _, _, _, _, _, _)
csum_loop(buf, off, len, i, csum, reads, oob) ==
    IF i < len
    THEN csum_loop(buf, off, len, i + 2,
                   u32_add(csum, csum_word(buf, off, len, i, oob)),
                   reads \cup csum_word_reads(off, len, i), oob)
    ELSE [csum |-> csum, reads |-> reads]

\* csum = (csum >> 16) + (csum & 0xffff); csum += (csum >> 16);
\* return (uint16_t)(~csum);
csum_fold(csum) ==
    LET c1 == csum.hi + csum.lo
        c2 == c1 + (c1 \div 65536)
    IN  65535 - U16(c2)

\* faulty variant: the loop stops at the last whole word, so the last byte
\* of an odd-length buffer is left out
checksum_run_whole_words(buf, off, len, oob) ==
    LET r == csum_loop(buf, off, len - (len % 2), 0, u32_zero, {}, oob)
    IN  [val |-> csum_fold(r.csum), reads |-> r.reads]

checksum_run(buf, off, len, oob) ==
    LET r == csum_loop(buf, off, len, 0, u32_zero, {}, oob)
    IN  [val |-> csum_fold(r.csum), reads |-> r.reads]

checksum(buf, off, len, oob) == checksum_run(buf, off, len, oob).val

\* --------------------------------------------------- read16 / write16
read16(buf, off, oob) ==
    U16(at(buf, off, 0, oob) * 256) + at(buf, off, 1, oob)

\* faulty variant: little-endian
write16_le(buf, off, s) ==
    [buf EXCEPT ![off + 1] = s % 256, ![off + 2] = U8(s \div 256)]

\* the buffer with bytes off, off + 1 set to s >> 8, s & 0xFF
write16(buf, off, s) ==
    [buf EXCEPT ![off + 1] = U8(s \div 256), ![off + 2] = s % 256]

\* ---------------------------------------------------------- icmp_encode
\* calloc(1, pktlen): pktlen zero bytes
calloc(n) == [i \in 1..n |-> 0]

\* memcpy(&data[off], src, n)
memcpy(dst, off, src, n) ==
    [i \in 1..Len(dst) |->
        IF i > off /\ i <= off + n THEN src[i - off] ELSE dst[i]]

\* faulty variant: the two codes swapped
encode_type_swapped(rule, pkt) ==
    IF pkt.type = ICMP_REQUEST THEN rule.reply_type ELSE rule.request_type

encode_type(rule, pkt) ==
    IF pkt.type = ICMP_REQUEST THEN rule.request_type ELSE rule.reply_type

\* faulty variant: the checksum covers the header only
encode_checksum_header_only(rule, data, pktlen) ==
    IF rule.use_checksum # 0
    THEN write16(data, 2, checksum(data, 0, ICMP_HDRLEN, 0))
    ELSE data

encode_checksum(rule, data, pktlen) ==
    IF rule.use_checksum # 0
    THEN write16(data, 2, checksum(data, 0, pktlen, 0))
    ELSE data

\* The result of icmp_encode: the buffer (NULL when calloc fails) and the
\* value *len holds afterwards (len0, the caller's, when nothing was written).
icmp_encode(pkt, len0, callocOk) ==
    LET rule == GET_RULE(pkt)
        pktlen == ICMP_HDRLEN + pkt.payload_len
        d0 == calloc(pktlen)
        d1 == [d0 EXCEPT ![1] = U8(encode_type(rule, pkt))]
        d2 == write16(d1, 4, pkt.id)
        d3 == write16(d2, 6, pkt.seqno)
        d4 == IF pkt.payload_len # 0
              THEN memcpy(d3, 8, pkt.payload, pkt.payload_len)
              ELSE d3
        d5 == encode_checksum(rule, d4, pktlen)
    IN  IF ~callocOk
        THEN [data |-> NULL, len |-> len0]
        ELSE [data |-> d5, len |-> pktlen]

\* ----------------------------------------------------------- icmp_parse
\* faulty variant: the payload is reset before the failure is returned
parse_fail_clobber(code, pkt, reads) ==
    [rc |-> code, pkt |-> [pkt EXCEPT !.payload = NULL, !.payload_len = 0],
     reads |-> reads, allocs |-> 0]

parse_fail(code, pkt, reads) ==
    [rc |-> code, pkt |-> pkt, reads |-> reads, allocs |-> 0]

\* hdrlen = (data[0] & 0x0f) << 2
iphdr_len(b0) == (b0 % 16) * 4

\* the two family checks of the type byte; "none" stands for neither
\* faulty variant: every other type byte is taken for a reply
classify_lenient(rule, b0) ==
    IF rule.request_type = b0 THEN ICMP_REQUEST ELSE ICMP_REPLY

classify(rule, b0) ==
    IF rule.request_type = b0 THEN ICMP_REQUEST
    ELSE IF rule.reply_type = b0 THEN ICMP_REPLY
    ELSE "none"

\* the payload copy: malloc(payload_len) and memcpy from &data[ICMP_HDRLEN]
parse_payload(buf, off, payload_len, oob) ==
    IF payload_len # 0
    THEN [i \in 1..payload_len |-> at(buf, off, ICMP_HDRLEN + i - 1, oob)]
    ELSE NULL

parse_payload_reads(off, payload_len) ==
    {off + ICMP_HDRLEN + i - 1 : i \in 1..payload_len}

\* faulty variant of parse_segment: the type is classified before the
\* checksum is verified
parse_segment_type_first(rule, pkt, buf, off, len, reads0, oob) ==
    IF len < ICMP_HDRLEN THEN parse_fail(-1, pkt, reads0)
    ELSE
    LET type == classify(rule, at(buf, off, 0, oob))
        ck == IF rule.use_checksum # 0
              THEN checksum_run(buf, off, len, oob)
              ELSE [val |-> 0, reads |-> {}]
        payload_len == len - ICMP_HDRLEN
    IN  IF type = "none" THEN parse_fail(-5, pkt, reads0 \cup {off})
        ELSE IF rule.use_checksum # 0 /\ ck.val # 0
        THEN parse_fail(-2, pkt, reads0 \cup {off} \cup ck.reads)
        ELSE [rc |-> 0,
              pkt |-> [pkt EXCEPT
                  !.type = type,
                  !.id = read16(buf, off + 4, oob),
                  !.seqno = read16(buf, off + 6, oob),
                  !.payload_len = payload_len,
                  !.payload = parse_payload(buf, off, payload_len, oob)],
              reads |-> reads0 \cup ck.reads
                        \cup {off, off + 4, off + 5, off + 6, off + 7}
                        \cup parse_payload_reads(off, payload_len),
              allocs |-> IF payload_len # 0 THEN 1 ELSE 0]

\* icmp_parse from `if (len < ICMP_HDRLEN)` on, for the pointer (buf, off)
\* and the remaining length len; reads0 are the indices read so far.
parse_segment(rule, pkt, buf, off, len, reads0, oob) ==
    IF len < ICMP_HDRLEN THEN parse_fail(-1, pkt, reads0)
    ELSE
    LET ck == IF rule.use_checksum # 0
              THEN checksum_run(buf, off, len, oob)
              ELSE [val |-> 0, reads |-> {}]
        reads1 == reads0 \cup ck.reads
    IN  IF rule.use_checksum # 0 /\ ck.val # 0 THEN parse_fail(-2, pkt, reads1)
        ELSE
        LET type == classify(rule, at(buf, off, 0, oob))
            reads2 == reads1 \cup {off}
            payload_len == len - ICMP_HDRLEN
        IN  IF type = "none" THEN parse_fail(-5, pkt, reads2)
            ELSE [rc |-> 0,
                  pkt |-> [pkt EXCEPT
                      !.type = type,
                      !.id = read16(buf, off + 4, oob),
                      !.seqno = read16(buf, off + 6, oob),
                      !.payload_len = payload_len,
                      !.payload = parse_payload(buf, off, payload_len, oob)],
                  reads |-> reads2 \cup {off + 4, off + 5, off + 6, off + 7}
                            \cup parse_payload_reads(off, payload_len),
                  allocs |-> IF payload_len # 0 THEN 1 ELSE 0]

\* the strip of the IP header: the offset and length the rest works on
strip_off(hdrlen) == hdrlen
\* faulty variant: the length is not reduced by the header
strip_len_keep(len, hdrlen) == len
strip_len(len, hdrlen) == len - hdrlen

icmp_parse(pkt, buf, len, oob) ==
    LET rule == GET_RULE(pkt)
    IN  IF rule.strip_iphdr # 0
        THEN IF len = 0 THEN parse_fail(-3, pkt, {})
             ELSE LET hdrlen == iphdr_len(at(buf, 0, 0, oob))
                  IN  IF len < hdrlen THEN parse_fail(-4, pkt, {0})
                      ELSE parse_segment(rule, pkt, buf, strip_off(hdrlen),
                                         strip_len(len, hdrlen), {0}, oob)
        ELSE parse_segment(rule, pkt, buf, 0, len, {}, oob)

\* ------------------------------------------------------------- state
VARIABLES
    pc,        \* where the probe is: idle, call, sendto, free, returned, ...
    tx,        \* the packet the caller built and passes to icmp_send
    icmpdata,  \* icmp_send: the transmit buffer (NULL when none)
    len,       \* icmp_send: its local len
    ret,       \* icmp_send: the value returned
    live,      \* transmit buffers allocated and not yet freed
    handed,    \* calls of sendto made by the current icmp_send
    freed,     \* calls of free made by the current icmp_send
    wire,      \* the bytes handed to sendto
    hdr,       \* received: the bytes in front of the ICMP segment
    seg,       \* received: the ICMP segment
    rx,        \* the packet passed to icmp_parse (peer set by the caller)
    rc,        \* icmp_parse: the value returned
    reads,     \* icmp_parse: the indices of the input it read
    allocs     \* icmp_parse: payload buffers it allocated

vars ==
    << pc, tx, icmpdata, len, ret, live, handed, freed, wire, hdr, seg, rx,
       rc, reads, allocs >>

\* ------------------------------------------------- the caller's inputs
Families == {AF_INET, AF_INET6}
Types == {ICMP_REQUEST, ICMP_REPLY}
Ids == {0, 4660, 65535}
Seqnos == {0, 1, 32768}
PayloadBytes == {170, 187}
OobBytes == {0, 255}
PeerLen(family) == IF family = AF_INET THEN 16 ELSE 28

RECURSIVE SeqsUpTo(_, _)
SeqsUpTo(S, n) ==
    IF n = 0 THEN {<< >>}
    ELSE LET shorter == SeqsUpTo(S, n - 1)
         IN  shorter \cup {Append(q, b) : q \in {r \in shorter : Len(r) = n - 1}, b \in S}

Payloads == SeqsUpTo(PayloadBytes, MaxPayload)

\* a packet as the caller builds it for a probe
Packet(family, type, id, seqno, payload) ==
    [family |-> family, peer_len |-> PeerLen(family), type |-> type, id |-> id,
     seqno |-> seqno, payload |-> payload, payload_len |-> Len(payload)]

\* the packet the caller hands to icmp_parse: the peer is set, the other
\* fields still hold what an earlier use left in them
Stale(family) ==
    [family |-> family, peer_len |-> PeerLen(family), type |-> "stale",
     id |-> 48879, seqno |-> 57005, payload |-> <<85>>, payload_len |-> 1]

NoPacket == Stale("none")

\* ------------------------------------------------- the network (external)
Take(q, k) == SubSeq(q, 1, k)

\* an IP header of 4 * n bytes whose first byte has high nibble hi, low nibble n
IPHeader(n, hi, fill) ==
    [i \in 1..(4 * n) |-> IF i = 1 THEN hi * 16 + n ELSE fill]

HdrShapes == {<<4, 0>>, <<15, 255>>}

Pow2(k) == 2 ^ k
FlipBit(b, k) == IF (b \div Pow2(k)) % 2 = 1 THEN b - Pow2(k) ELSE b + Pow2(k)
\* q with bit `bit` flipped, bits counted from bit 0 of byte 0
FlipBitAt(q, bit) ==
    [q EXCEPT ![(bit \div 8) + 1] = FlipBit(q[(bit \div 8) + 1], bit % 8)]

ForeignTypes == {0, 3, 8, 11, 128, 129}
\* the segment another sender would have sent: type t, and the checksum
\* recomputed over it when fixck
Foreign(q, t, fixck) ==
    LET q1 == [q EXCEPT ![1] = t]
        q2 == [q1 EXCEPT ![3] = 0, ![4] = 0]
    IN  IF fixck THEN write16(q2, 2, checksum(q2, 0, Len(q2), 0)) ELSE q1

\* ------------------------------------------------------------- actions
Init ==
    /\ pc = "idle"
    /\ tx = NoPacket
    /\ icmpdata = NULL /\ len = 0 /\ ret = 0
    /\ live = 0 /\ handed = 0 /\ freed = 0
    /\ wire = NULL /\ hdr = << >> /\ seg = << >>
    /\ rx = NoPacket
    /\ rc = 0 /\ reads = {} /\ allocs = 0

\* the caller builds a packet and calls icmp_send
Build(family, type, id, seqno, payload) ==
    /\ pc = "idle"
    /\ pc' = "call"
    /\ tx' = Packet(family, type, id, seqno, payload)
    /\ UNCHANGED << icmpdata, len, ret, live, handed, freed, wire, hdr, seg,
                    rx, rc, reads, allocs >>

\* icmp_send: icmpdata = icmp_encode(pkt, &len); if (!icmpdata) return 0;
SendEncode(callocOk) ==
    /\ pc = "call"
    /\ LET e == icmp_encode(tx, len, callocOk)
       IN  /\ icmpdata' = e.data
           /\ len' = e.len
           /\ IF e.data = NULL
              THEN /\ pc' = "returned" /\ ret' = 0 /\ live' = live
              ELSE /\ pc' = "sendto" /\ ret' = ret /\ live' = live + 1
    /\ UNCHANGED << tx, handed, freed, wire, hdr, seg, rx, rc, reads, allocs >>

\* what sendto may report for n bytes: failure, a partial send, all of them
SendOutcomes(n) == {-1, n - 1, n}

\* icmp_send: len = sendto(socket, icmpdata, len, ...)
\* faulty variant: a failed send returns without the free
after_sendto_skip_free(n) == IF n < 0 THEN "return" ELSE "free"
after_sendto(n) == "free"

SendSendto(n) ==
    /\ pc = "sendto"
    /\ wire' = icmpdata
    /\ handed' = handed + 1
    /\ len' = n
    /\ pc' = after_sendto(n)
    /\ UNCHANGED << tx, icmpdata, ret, live, freed, hdr, seg, rx, rc, reads,
                    allocs >>

\* icmp_send: free(icmpdata);
SendFree ==
    /\ pc = "free"
    /\ live' = live - 1
    /\ freed' = freed + 1
    /\ pc' = "return"
    /\ UNCHANGED << tx, icmpdata, len, ret, handed, wire, hdr, seg, rx, rc,
                    reads, allocs >>

\* icmp_send: return len;
SendReturn ==
    /\ pc = "return"
    /\ ret' = len
    /\ pc' = "returned"
    /\ UNCHANGED << tx, icmpdata, len, live, handed, freed, wire, hdr, seg, rx,
                    rc, reads, allocs >>

\* A buffer arrives from the peer's family; the caller sets the peer of the
\* packet it will parse into.
Receive(h, s) ==
    /\ wire # NULL /\ ret = Len(wire)
    /\ hdr' = h
    /\ seg' = s
    /\ rx' = Stale(tx.family)
    /\ pc' = "received"
    /\ UNCHANGED << tx, icmpdata, len, ret, live, handed, freed, wire, rc,
                    reads, allocs >>

HdrNibbles(family) == IF family = AF_INET THEN 0..15 ELSE {0}

\* the bytes sent, behind an IP header of 4 * n bytes
DeliverPrefixed(n, shape) ==
    /\ pc = "returned"
    /\ n \in HdrNibbles(tx.family)
    /\ Receive(IPHeader(n, shape[1], shape[2]), wire)

\* the bytes sent with one bit flipped, behind an intact 20-byte IP header
DeliverFlipped(bit) ==
    /\ pc = "returned"
    /\ tx.family = AF_INET
    /\ Receive(IPHeader(5, 4, 0), FlipBitAt(wire, bit))

\* a message of another type
DeliverForeign(t, fixck) ==
    /\ pc = "returned"
    /\ Receive(IF tx.family = AF_INET THEN IPHeader(5, 4, 0) ELSE << >>,
               Foreign(wire, t, fixck))

\* a buffer that ends inside the IP header it declares
DeliverCutHeader(n, k) ==
    /\ pc = "returned"
    /\ tx.family = AF_INET
    /\ k >= 0 /\ k < 4 * n
    /\ Receive(Take(IPHeader(n, 4, 0), k), << >>)

\* a buffer that ends inside the ICMP segment
DeliverCutSegment(n, j) ==
    /\ pc = "returned"
    /\ n \in HdrNibbles(tx.family)
    /\ Receive(IPHeader(n, 4, 0), Take(wire, j))

\* the caller calls icmp_parse on the received buffer
Parse(oob) ==
    /\ pc = "received"
    /\ LET data == hdr \o seg
           r == icmp_parse(rx, data, Len(data), oob)
       IN  /\ rc' = r.rc
           /\ rx' = r.pkt
           /\ reads' = r.reads
           /\ allocs' = r.allocs
    /\ pc' = "parsed"
    /\ UNCHANGED << tx, icmpdata, len, ret, live, handed, freed, wire, hdr,
                    seg >>

\* the caller is done with the probe and releases what it owns
NextProbe ==
    /\ pc \in {"returned", "parsed"}
    /\ pc' = "idle"
    /\ tx' = NoPacket
    /\ icmpdata' = NULL /\ len' = 0 /\ ret' = 0
    /\ handed' = 0 /\ freed' = 0
    /\ wire' = NULL /\ hdr' = << >> /\ seg' = << >>
    /\ rx' = NoPacket
    /\ rc' = 0 /\ reads' = {} /\ allocs' = 0
    /\ UNCHANGED live

Next ==
    \/ pc = "idle" /\ \E family \in Families, type \in Types, id \in Ids, seqno \in Seqnos,
          payload \in Payloads : Build(family, type, id, seqno, payload)
    \/ \E callocOk \in BOOLEAN : SendEncode(callocOk)
    \/ pc = "sendto" /\ \E n \in SendOutcomes(len) : SendSendto(n)
    \/ SendFree
    \/ SendReturn
    \/ pc = "returned" /\ \E n \in 0..15, shape \in HdrShapes :
          DeliverPrefixed(n, shape)
    \/ pc = "returned" /\ \E bit \in 0..(8 * Len(wire) - 1) : DeliverFlipped(bit)
    \/ pc = "returned" /\ \E t \in ForeignTypes, fixck \in BOOLEAN :
          DeliverForeign(t, fixck)
    \/ pc = "returned" /\ \E n \in 0..15 : \E k \in {0, 1, 4 * n - 1} :
          DeliverCutHeader(n, k)
    \/ pc = "returned" /\ \E n \in 0..15, j \in 0..(Len(wire) - 1) :
          DeliverCutSegment(n, j)
    \/ \E oob \in OobBytes : Parse(oob)
    \/ NextProbe

Spec == Init /\ [][Next]_vars

\* ------------------------------------------------------------ the claims
Data == hdr \o seg
Parsed == pc = "parsed"
Before == Stale(tx.family)

\* the received buffer is the sent one behind a whole IP header: none for
\* IPv6, 4 * n >= 4 bytes whose first byte has low nibble n for IPv4
IntactHeader ==
    IF tx.family = AF_INET
    THEN Len(hdr) >= 4 /\ Len(hdr) = 4 * (hdr[1] % 16)
    ELSE hdr = << >>

SameLogical(p, q) ==
    /\ p.type = q.type /\ p.id = q.id /\ p.seqno = q.seqno
    /\ p.payload = q.payload /\ p.payload_len = q.payload_len

\* the IPv4 decode of q with the strip step skipped
NoStrip(q) == parse_segment(icmpv4, Stale(AF_INET), q, 0, Len(q), {}, 0)

\* C1: encode then decode returns 0 and gives back type, id, seqno, payload
\* and payload length: for IPv6 on the bytes as sent, for IPv4 behind an IP
\* header of 4 * n bytes with low nibble n, or with the strip step skipped.
C1_RoundTrip ==
    /\ (Parsed /\ seg = wire /\ IntactHeader) => (rc = 0 /\ SameLogical(rx, tx))
    /\ (pc = "sendto" /\ tx.family = AF_INET) =>
          (NoStrip(icmpdata).rc = 0 /\ SameLogical(NoStrip(icmpdata).pkt, tx))

C1_Witness ==
    /\ Parsed /\ seg = wire /\ tx.family = AF_INET /\ Len(hdr) = 60
    /\ tx.type = ICMP_REQUEST /\ rx.type = ICMP_REQUEST
    /\ rx.id = 4660 /\ rx.seqno = 1 /\ rx.payload = <<170, 187>>

\* C2: the checksum over the whole buffer icmp_encode produced for an IPv4
\* packet, the filled-in checksum field included, is zero.
C2_ChecksumSelfConsistent ==
    (pc = "sendto" /\ tx.family = AF_INET) =>
        checksum(icmpdata, 0, len, 0) = 0

C2_Witness ==
    /\ pc = "sendto" /\ tx.family = AF_INET /\ tx.payload_len = 1
    /\ tx.id = 65535 /\ <<icmpdata[3], icmpdata[4]>> # <<0, 0>>

\* The code icmp_parse is to return, its checks taken in the claimed order.
ExpectedCode(family, data) ==
    LET v4 == family = AF_INET
        h == IF v4 /\ Len(data) > 0 THEN 4 * (data[1] % 16) ELSE 0
        s == SubSeq(data, h + 1, Len(data))
        codes == IF v4 THEN {8, 0} ELSE {128, 129}
    IN  IF v4 /\ Len(data) = 0 THEN -3
        ELSE IF v4 /\ h > Len(data) THEN -4
        ELSE IF Len(data) - h < 8 THEN -1
        ELSE IF v4 /\ checksum(s, 0, Len(s), 0) # 0 THEN -2
        ELSE IF s[1] \notin codes THEN -5
        ELSE 0

\* C3: icmp_parse returns at its first failing check, in the order length
\* zero (-3), header longer than the buffer (-4), fewer than 8 bytes left
\* (-1), checksum (-2), type (-5), and 0 exactly when none fails.
C3_CheckOrder ==
    Parsed => (rc = ExpectedCode(tx.family, Data) /\ rc \in {0, -1, -2, -3, -4, -5})

C3_Witness ==
    /\ Parsed /\ tx.family = AF_INET /\ rc = -2
    /\ Len(seg) >= 8 /\ seg[1] \notin {8, 0} /\ IntactHeader

\* the ICMP segment icmp_parse works on, when the strip succeeds
StripOk ==
    tx.family = AF_INET => (Len(Data) > 0 /\ 4 * (Data[1] % 16) <= Len(Data))
Segment ==
    IF tx.family = AF_INET
    THEN SubSeq(Data, 4 * (Data[1] % 16) + 1, Len(Data))
    ELSE Data
UnknownType ==
    /\ StripOk /\ Len(Segment) >= 8
    /\ Segment[1] \notin (IF tx.family = AF_INET THEN {8, 0} ELSE {128, 129})

\* C4 as stated: a segment of at least 8 bytes whose type byte is neither
\* the request nor the reply code of the family is rejected with -5.
C4_TypeRejection_Original ==
    (Parsed /\ UnknownType) => rc = -5

\* C4, amended: a segment of at least 8 bytes whose type byte is neither
\* code of the family is rejected with -5 provided, for IPv4, the checksum
\* over the segment is zero; with a non-zero checksum IPv4 returns -2.
C4_TypeRejection ==
    (Parsed /\ UnknownType) =>
        IF tx.family = AF_INET /\ checksum(Segment, 0, Len(Segment), 0) # 0
        THEN rc = -2
        ELSE rc = -5

C4_Witness ==
    /\ Parsed /\ UnknownType /\ tx.family = AF_INET /\ rc = -5
    /\ Segment[1] = 3 /\ Len(Segment) = 9

\* C5: behind a 20-byte prefix whose first byte has low nibble 5, every
\* segment decodes to the return code and the packet that decoding the
\* segment alone, strip step skipped, gives, whatever else the prefix holds.
C5_HeaderStrip ==
    (Parsed /\ tx.family = AF_INET /\ Len(hdr) = 20 /\ hdr[1] % 16 = 5) =>
        (rc = NoStrip(seg).rc /\ rx = NoStrip(seg).pkt)

C5_Witness ==
    /\ Parsed /\ tx.family = AF_INET /\ Len(hdr) = 20 /\ hdr[1] = 245
    /\ hdr[20] = 255 /\ rc = 0 /\ rx.payload = <<187, 170>>

\* the segment received is the segment sent with exactly one bit flipped
OneBitFlipped ==
    /\ Len(seg) = Len(wire)
    /\ \E bit \in 0..(8 * Len(wire) - 1) : seg = FlipBitAt(wire, bit)

\* C6: an IPv4 buffer from icmp_encode with any single bit of the segment
\* flipped, behind an intact IP header, is rejected with -2.
C6_ChecksumSensitivity ==
    (Parsed /\ tx.family = AF_INET /\ IntactHeader /\ OneBitFlipped) => rc = -2

C6_Witness ==
    /\ Parsed /\ tx.family = AF_INET /\ IntactHeader /\ OneBitFlipped
    /\ Len(seg) = 9 /\ seg[9] = FlipBit(wire[9], 0) /\ rc = -2

\* RFC 1071, from its definition: the one's complement of the one's
\* complement sum of the 16-bit big-endian words, an odd last byte padded
\* with a zero low byte.
RECURSIVE WordSum(_, _)
WordSum(q, i) ==
    IF i > Len(q) THEN 0
    ELSE q[i] * 256 + (IF i + 1 <= Len(q) THEN q[i + 1] ELSE 0) + WordSum(q, i + 2)
OnesSum(sum) == IF sum = 0 THEN 0 ELSE ((sum - 1) % 65535) + 1
Rfc1071(q) == 65535 - OnesSum(WordSum(q, 1))

ExpectedTypeCode(p) ==
    IF p.family = AF_INET
    THEN (IF p.type = ICMP_REQUEST THEN 8 ELSE 0)
    ELSE (IF p.type = ICMP_REQUEST THEN 128 ELSE 129)

\* the buffer of the claimed layout, the checksum field left zero
LayoutZeroCk(p) ==
    << ExpectedTypeCode(p), 0, 0, 0, p.id \div 256, p.id % 256,
       p.seqno \div 256, p.seqno % 256 >> \o p.payload

ExpectedLayout(p) ==
    LET z == LayoutZeroCk(p)
        ck == IF p.family = AF_INET THEN Rfc1071(z) ELSE 0
    IN  [z EXCEPT ![3] = ck \div 256, ![4] = ck % 256]

\* C7: icmp_encode returns exactly 8 + payload_len bytes: the family's type
\* code, 0, the checksum big-endian (RFC 1071 over the buffer with a zero
\* checksum field for IPv4, 00 00 for IPv6), id and seqno big-endian, the
\* payload; IPv4 Request id 0x1234 seqno 1 payload AA BB gives
\* 08 00 3B 0F 12 34 00 01 AA BB.
C7_EncodeLayout ==
    pc = "sendto" =>
        /\ len = 8 + tx.payload_len
        /\ Len(icmpdata) = len
        /\ icmpdata = ExpectedLayout(tx)
        /\ tx = Packet(AF_INET, ICMP_REQUEST, 4660, 1, <<170, 187>>) =>
              icmpdata = <<8, 0, 59, 15, 18, 52, 0, 1, 170, 187>>

C7_Witness ==
    /\ pc = "sendto"
    /\ tx = Packet(AF_INET, ICMP_REQUEST, 4660, 1, <<170, 187>>)
    /\ icmpdata = <<8, 0, 59, 15, 18, 52, 0, 1, 170, 187>>

\* C8: a call of icmp_send that obtains a buffer hands it to sendto once,
\* then frees it once, whatever sendto reports, and returns that report; a
\* call whose allocation fails never calls sendto and returns 0; no transmit
\* buffer is live once icmp_send has returned, call after call.
C8_SendOwnership ==
    /\ handed <= 1 /\ freed <= handed
    /\ pc \in {"idle", "call", "returned", "received", "parsed"} => live = 0
    /\ pc \in {"sendto", "free"} => live = 1
    /\ (pc = "returned" /\ icmpdata # NULL) =>
          (handed = 1 /\ freed = 1 /\ ret \in SendOutcomes(Len(icmpdata)))
    /\ (pc = "returned" /\ icmpdata = NULL) =>
          (handed = 0 /\ freed = 0 /\ ret = 0)

C8_Witness ==
    pc = "returned" /\ icmpdata # NULL /\ ret = -1 /\ freed = 1 /\ live = 0

\* C9: icmp_parse reads the input only at indices 0 <= i < len, for every
\* family, length, content and declared header length.
C9_ReadsInBounds ==
    Parsed => \A i \in reads : i >= 0 /\ i < Len(Data)

C9_Witness ==
    /\ Parsed /\ tx.family = AF_INET /\ hdr # << >> /\ hdr[1] % 16 = 15
    /\ Len(Data) = 69 /\ rc = 0 /\ 68 \in reads

\* C10: when icmp_parse returns a non-zero code the packet is as it was
\* before the call and no payload buffer was allocated; on success the peer
\* is as it was.
C10_FrameOnFailure ==
    /\ (Parsed /\ rc # 0) => (rx = Before /\ allocs = 0)
    /\ Parsed => (rx.family = Before.family /\ rx.peer_len = Before.peer_len)

C10_Witness ==
    /\ Parsed /\ rc = -5 /\ rx = Before /\ allocs = 0 /\ Len(seg) = 10

====
